---- MODULE Spec2Model ----
(***************************************************************************)
(* A model of the singleflight Group of src/src/lib.rs: the registry       *)
(* shared_chans behind its mutex, the per-key Call record (dup counter and *)
(* unbounded channel), and the two entry points go and go_chan, each cut   *)
(* into the steps at which other threads can interleave.                   *)
(*                                                                         *)
(* History variables (rounds, ran, alone, dsent) record what has happened; *)
(* no action of the program reads them.  Each caller makes one call; the   *)
(* func it passes returns Ok or Err, or panics, and may itself call go or  *)
(* go_chan with the same key.                                              *)
(***************************************************************************)
EXTENDS Naturals, Sequences, FiniteSets

\* ---------------------------------------------------------------- bounds

NumCallers == 2

Callers == 1..NumCallers
Keys == {"k1", "k2"}
ChanIds == 1..NumCallers

\* ------------------------------------------------------- program constants

\* crossbeam::channel::bounded(1): the capacity of a go_chan delivery channel
DeliveryCap == 1

\* ------------------------------------------------------------ data values

NoOne == 0
NoChan == 0
NoKey == "none"
None == [tag |-> "None"]

\* What the func a caller passes can return: Ok(v), or an error value that
\* carries a text and a structured cause. Each caller passes a func of its
\* own, whose value and whose error text are told apart from the others'.
ValueOf(c) == 6 + c

WorkResults(c) ==
    {[tag |-> "Ok", val |-> ValueOf(c)],
     [tag |-> "Err", err |-> [text |-> <<"failed", c>>, cause |-> <<"io", c>>]]}

\* mutant: the error's cause is sent in place of its Display text
ToStringOfCause(err) == err.cause

\* err.to_string(): the Display text of the error, the cause is not part of it
ToString(err) == err.text

\* mutant: shared is computed as dup > 1
SharedValueOffByOne(func_res, dup) ==
    IF func_res.tag = "Ok"
    THEN [tag |-> "Ok", val |-> func_res.val, shared |-> (dup > 1)]
    ELSE [tag |-> "Err", text |-> func_res.err.text]

\* mutant: shared is computed as dup >= 0
SharedValueAlwaysShared(func_res, dup) ==
    IF func_res.tag = "Ok"
    THEN [tag |-> "Ok", val |-> func_res.val, shared |-> (dup >= 0)]
    ELSE [tag |-> "Err", text |-> func_res.err.text]

\* The message built for one recipient from the leader's func_res and the
\* retired record's dup.
SharedValue(func_res, dup) ==
    IF func_res.tag = "Ok"
    THEN [tag |-> "Ok", val |-> func_res.val, shared |-> (dup > 0)]
    ELSE [tag |-> "Err", text |-> ToString(func_res.err)]

\* mutant: the range excludes its upper end, 0..call.dup
LoopRunsExclusive(i, dup) == i < dup

\* for _ in 0..=call.dup: the loop runs while i <= dup
LoopRuns(i, dup) == i <= dup

\* mutant: the lookup never finds the record
PresentNever(reg, k) == FALSE

\* share.get_mut(key) is Some
Present(reg, k) == k \in DOMAIN reg

\* mutant: every record shares one channel
NewCallSameChannel(id) == [dup |-> 0, chan |-> 1]

\* Call::new(): dup 0 and a fresh unbounded channel
NewCall(id) == [dup |-> 0, chan |-> id]

\* mutant: the leader does not put its record into the map
InsertForgotten(reg, k, call) == reg

\* share.entry(key).or_insert(call)
Insert(reg, k, call) ==
    IF k \in DOMAIN reg THEN reg
    ELSE [x \in DOMAIN reg \cup {k} |-> IF x = k THEN call ELSE reg[x]]

\* mutant: the follower does not count itself
BumpForgotten(reg, k) == reg

\* call.dup += 1 on the record in the map
Bump(reg, k) == [reg EXCEPT ![k].dup = @ + 1]

\* mutant: the retire empties the map
RemoveAll(reg, k) == << >>

\* mutant: the record stays in the map
RemoveKeeps(reg, k) == reg

\* shared.remove(key): the map without the key
Remove(reg, k) == [x \in DOMAIN reg \ {k} |-> reg[x]]

\* ---------------------------------------------------------------- state

VARIABLES
    shared_chans,   \* Group.shared_chans: key -> Call record [dup, chan]
    lock,           \* the holder of the Mutex, or NoOne
    chans,          \* the queue of each record channel, by channel id
    nextChan,       \* the id the next Call::new() gets
    pc,             \* the caller thread's position
    tpc,            \* the position of the thread a go_chan call spawned
    key,            \* the key argument of the caller's current call
    mode,           \* "go" or "go_chan"
    role,           \* "leader", "follower", or "none" before the lookup
    call,           \* the caller's local call: [dup, chan]
    func_res,       \* the leader's local func_res
    idx,            \* the send loop's counter
    relay,          \* the message a follower task holds between recv and send
    dchan,          \* the queue of the caller's delivery channel (go_chan)
    ret,            \* what the call returned (go) or the handle yielded
    rounds,         \* history: per channel id, the round's key, result, counts
    ran,            \* history: how often the caller's own func ran in this call
    alone,          \* history: no other call for the key during this call
    dsent,          \* history: messages ever sent on the delivery channel
    npc             \* the position of a call the caller's func itself makes

vars == <<shared_chans, lock, chans, nextChan, pc, tpc, key, mode, role, call,
          func_res, idx, relay, dchan, ret, rounds, ran, alone, dsent, npc>>

NoRound == [key |-> NoKey, leader |-> NoOne, res |-> None, execs |-> 0,
            joined |-> 0, retired |-> FALSE, dup |-> 0, sent |-> 0]

Init ==
    /\ shared_chans = << >>
    /\ lock = NoOne
    /\ chans = [id \in ChanIds |-> << >>]
    /\ nextChan = 1
    /\ pc = [c \in Callers |-> "idle"]
    /\ tpc = [c \in Callers |-> "none"]
    /\ key = [c \in Callers |-> NoKey]
    /\ mode = [c \in Callers |-> "none"]
    /\ role = [c \in Callers |-> "none"]
    /\ call = [c \in Callers |-> [dup |-> 0, chan |-> NoChan]]
    /\ func_res = [c \in Callers |-> None]
    /\ idx = [c \in Callers |-> 0]
    /\ relay = [c \in Callers |-> None]
    /\ dchan = [c \in Callers |-> << >>]
    /\ ret = [c \in Callers |-> None]
    /\ rounds = [id \in ChanIds |-> NoRound]
    /\ ran = [c \in Callers |-> 0]
    /\ alone = [c \in Callers |-> FALSE]
    /\ dsent = [c \in Callers |-> 0]
    /\ npc = [c \in Callers |-> "none"]

\* ------------------------------------------------------------- helpers

\* a call of the caller is in progress: it was made and has neither returned
\* nor ended by unwinding
InCall(c) == pc[c] \notin {"idle", "done", "unwound"}

\* The bookkeeping of a call's entry: the caller's locals start afresh, and the
\* history notes whether another call for the same key is in progress.
Enter(c, k, m) ==
    /\ pc[c] = "idle"
    /\ pc' = [pc EXCEPT ![c] = "lock"]
    /\ key' = [key EXCEPT ![c] = k]
    /\ mode' = [mode EXCEPT ![c] = m]
    /\ role' = [role EXCEPT ![c] = "none"]
    /\ call' = [call EXCEPT ![c] = [dup |-> 0, chan |-> NoChan]]
    /\ func_res' = [func_res EXCEPT ![c] = None]
    /\ idx' = [idx EXCEPT ![c] = 0]
    /\ ret' = [ret EXCEPT ![c] = None]
    /\ ran' = [ran EXCEPT ![c] = 0]
    /\ dchan' = [dchan EXCEPT ![c] = << >>]
    /\ dsent' = [dsent EXCEPT ![c] = 0]
    /\ alone' = [d \in Callers |->
                    IF d = c
                    THEN ~ \E e \in Callers \ {c} : InCall(e) /\ key[e] = k
                    ELSE IF InCall(d) /\ key[d] = k THEN FALSE ELSE alone[d]]
    /\ UNCHANGED <<npc, shared_chans, lock, chans, nextChan, tpc, relay, rounds>>

\* self.shared_chans.lock(): blocks while another thread holds the mutex
Acquire(c, from, to) ==
    /\ pc[c] = from
    /\ lock = NoOne
    /\ lock' = c
    /\ pc' = [pc EXCEPT ![c] = to]
    /\ UNCHANGED <<npc, shared_chans, chans, nextChan, tpc, key, mode, role, call,
                   func_res, idx, relay, dchan, ret, rounds, ran, alone, dsent>>

\* Where a leader goes after retiring: into the send loop if it runs at all
AfterRetire(dup, send, past) == IF LoopRuns(0, dup) THEN send ELSE past

\* Where a leader goes after one iteration of the send loop
AfterSend(i, dup, send, past) == IF LoopRuns(i + 1, dup) THEN send ELSE past

\* the caller's func is running: in the calling thread (go) or in the thread
\* spawned for it (go_chan)
Executing(c) == pc[c] = "func" \/ tpc[c] = "func"

\* mutant: the follower keeps the guard while it waits for its message
DropAfterJoinForgotten(c) == c

\* drop(share) at the end of the follower's lookup
DropAfterJoin(c) == NoOne

\* mutant: the leader keeps the guard while it runs func
DropAfterClaimForgotten(c) == c

\* drop(share) after the leader's or_insert
DropAfterClaim(c) == NoOne

\* func() returns once a call the func itself made has returned, and such a
\* call, a follower of the round, returns with a message of the round's channel
FuncCanReturn(c) ==
    \/ npc[c] = "none"
    \/ npc[c] \in {"f_recv", "scope"} /\ chans[call[c].chan] # << >>

\* ------------------------------------------------------------------ go

GoCall(c, k) == Enter(c, k, "go")

GoLock(c) == mode[c] = "go" /\ Acquire(c, "lock", "lookup")

\* if let Some(call) = share.get_mut(key): dup += 1, clone, drop(share)
GoJoin(c) ==
    /\ mode[c] = "go" /\ pc[c] = "lookup"
    /\ Present(shared_chans, key[c])
    /\ shared_chans' = Bump(shared_chans, key[c])
    /\ call' = [call EXCEPT ![c] = shared_chans'[key[c]]]
    /\ lock' = DropAfterJoin(c)
    /\ role' = [role EXCEPT ![c] = "follower"]
    /\ pc' = [pc EXCEPT ![c] = "f_recv"]
    /\ rounds' = [rounds EXCEPT ![shared_chans[key[c]].chan].joined = @ + 1]
    /\ UNCHANGED <<npc, chans, nextChan, tpc, key, mode, func_res, idx, relay,
                   dchan, ret, ran, alone, dsent>>

\* mutant: the follower's return is missing and it goes on to run func
AfterFollowerRecvFallsThrough == "func"

\* return res; the follower's call ends with the message it received
AfterFollowerRecv == "done"

\* call.chan.1.recv().unwrap(); return res
GoFollowerRecv(c) ==
    /\ mode[c] = "go" /\ pc[c] = "f_recv"
    /\ chans[call[c].chan] # << >>
    /\ ret' = [ret EXCEPT ![c] = Head(chans[call[c].chan])]
    /\ chans' = [chans EXCEPT ![call[c].chan] = Tail(@)]
    /\ pc' = [pc EXCEPT ![c] = AfterFollowerRecv]
    /\ UNCHANGED <<npc, shared_chans, lock, nextChan, tpc, key, mode, role, call,
                   func_res, idx, relay, dchan, rounds, ran, alone, dsent>>

\* let call = Call::new(); share.entry(key).or_insert(call); drop(share)
GoClaim(c) ==
    /\ mode[c] = "go" /\ pc[c] = "lookup"
    /\ ~ Present(shared_chans, key[c])
    /\ shared_chans' = Insert(shared_chans, key[c], NewCall(nextChan))
    /\ call' = [call EXCEPT ![c] = NewCall(nextChan)]
    /\ nextChan' = nextChan + 1
    /\ lock' = DropAfterClaim(c)
    /\ role' = [role EXCEPT ![c] = "leader"]
    /\ pc' = [pc EXCEPT ![c] = "func"]
    /\ rounds' = [rounds EXCEPT ![NewCall(nextChan).chan] =
                     [NoRound EXCEPT !.key = key[c], !.leader = c]]
    /\ UNCHANGED <<npc, chans, tpc, key, mode, func_res, idx, relay, dchan, ret,
                   ran, alone, dsent>>

\* let func_res = func();
GoFunc(c, r) ==
    /\ mode[c] = "go" /\ pc[c] = "func"
    /\ FuncCanReturn(c)
    /\ func_res' = [func_res EXCEPT ![c] = r]
    /\ ran' = [ran EXCEPT ![c] = @ + 1]
    /\ rounds' = [rounds EXCEPT ![call[c].chan].execs = @ + 1,
                                ![call[c].chan].res = r]
    /\ pc' = [pc EXCEPT ![c] = "relock"]
    /\ chans' = IF npc[c] = "none" THEN chans
                ELSE [chans EXCEPT ![call[c].chan] = Tail(@)]
    /\ npc' = [npc EXCEPT ![c] = "none"]
    /\ UNCHANGED <<shared_chans, lock, nextChan, tpc, key, mode, role,
                   call, idx, relay, dchan, ret, alone, dsent>>

\* func() panics: the call unwinds out of go. Nothing between or_insert and
\* remove catches it, so the record the leader inserted stays where it is.
GoFuncPanics(c) ==
    /\ mode[c] = "go" /\ pc[c] = "func"
    /\ npc[c] = "none"
    /\ ran' = [ran EXCEPT ![c] = @ + 1]
    /\ rounds' = [rounds EXCEPT ![call[c].chan].execs = @ + 1]
    /\ pc' = [pc EXCEPT ![c] = "unwound"]
    /\ UNCHANGED <<npc, shared_chans, lock, chans, nextChan, tpc, key, mode,
                   role, call, func_res, idx, relay, dchan, ret, alone, dsent>>

GoRetireLock(c) == mode[c] = "go" /\ Acquire(c, "relock", "remove")

\* let call = shared.remove(key).unwrap(); drop(shared)
GoRetire(c) ==
    /\ mode[c] = "go" /\ pc[c] = "remove"
    /\ lock' = NoOne
    /\ IF Present(shared_chans, key[c])
       THEN /\ call' = [call EXCEPT ![c] = shared_chans[key[c]]]
            /\ shared_chans' = Remove(shared_chans, key[c])
            /\ idx' = [idx EXCEPT ![c] = 0]
            /\ pc' = [pc EXCEPT ![c] =
                         AfterRetire(shared_chans[key[c]].dup, "send", "l_recv")]
            /\ rounds' = [rounds EXCEPT
                             ![shared_chans[key[c]].chan].retired = TRUE,
                             ![shared_chans[key[c]].chan].dup =
                                 shared_chans[key[c]].dup]
       ELSE /\ pc' = [pc EXCEPT ![c] = "panic"]
            /\ UNCHANGED <<call, shared_chans, idx, rounds>>
    /\ UNCHANGED <<npc, chans, nextChan, tpc, key, mode, role, func_res, relay,
                   dchan, ret, ran, alone, dsent>>

\* one iteration of for _ in 0..=call.dup: call.chan.0.send(shared_value)
GoSend(c) ==
    /\ mode[c] = "go" /\ pc[c] = "send"
    /\ chans' = [chans EXCEPT ![call[c].chan] =
                    Append(@, SharedValue(func_res[c], call[c].dup))]
    /\ rounds' = [rounds EXCEPT ![call[c].chan].sent = @ + 1]
    /\ idx' = [idx EXCEPT ![c] = @ + 1]
    /\ pc' = [pc EXCEPT ![c] = AfterSend(idx[c], call[c].dup, "send", "l_recv")]
    /\ UNCHANGED <<npc, shared_chans, lock, nextChan, tpc, key, mode, role, call,
                   func_res, relay, dchan, ret, ran, alone, dsent>>

\* call.chan.1.recv().unwrap(): the leader takes one message itself and returns
GoLeaderRecv(c) ==
    /\ mode[c] = "go" /\ pc[c] = "l_recv"
    /\ chans[call[c].chan] # << >>
    /\ ret' = [ret EXCEPT ![c] = Head(chans[call[c].chan])]
    /\ chans' = [chans EXCEPT ![call[c].chan] = Tail(@)]
    /\ pc' = [pc EXCEPT ![c] = "done"]
    /\ UNCHANGED <<npc, shared_chans, lock, nextChan, tpc, key, mode, role, call,
                   func_res, idx, relay, dchan, rounds, ran, alone, dsent>>

\* ------------------------------------------------------------- go_chan

GoChanCall(c, k) == Enter(c, k, "go_chan")

GoChanLock(c) == mode[c] = "go_chan" /\ Acquire(c, "lock", "lookup")

\* The follower path up to the end of the scope: dup += 1, clone, drop(share),
\* bounded(1), and the spawn of the relaying thread. The caller is then at
\* the end of thread::scope, which joins the thread it spawned.
GoChanJoin(c) ==
    /\ mode[c] = "go_chan" /\ pc[c] = "lookup"
    /\ Present(shared_chans, key[c])
    /\ shared_chans' = Bump(shared_chans, key[c])
    /\ call' = [call EXCEPT ![c] = shared_chans'[key[c]]]
    /\ lock' = DropAfterJoin(c)
    /\ role' = [role EXCEPT ![c] = "follower"]
    /\ dchan' = [dchan EXCEPT ![c] = << >>]
    /\ tpc' = [tpc EXCEPT ![c] = "t_recv"]
    /\ pc' = [pc EXCEPT ![c] = "scope"]
    /\ rounds' = [rounds EXCEPT ![shared_chans[key[c]].chan].joined = @ + 1]
    /\ UNCHANGED <<npc, chans, nextChan, key, mode, func_res, idx, relay, ret, ran,
                   alone, dsent>>

\* the spawned thread: call.chan.1.recv().unwrap()
TaskRelayRecv(c) ==
    /\ tpc[c] = "t_recv"
    /\ chans[call[c].chan] # << >>
    /\ relay' = [relay EXCEPT ![c] = Head(chans[call[c].chan])]
    /\ chans' = [chans EXCEPT ![call[c].chan] = Tail(@)]
    /\ tpc' = [tpc EXCEPT ![c] = "t_send"]
    /\ UNCHANGED <<npc, shared_chans, lock, nextChan, pc, key, mode, role, call,
                   func_res, idx, dchan, ret, rounds, ran, alone, dsent>>

\* the spawned thread: shared_send.send(..).unwrap(), blocking while full
TaskRelaySend(c) ==
    /\ tpc[c] = "t_send"
    /\ Len(dchan[c]) < DeliveryCap
    /\ dchan' = [dchan EXCEPT ![c] = Append(@, relay[c])]
    /\ dsent' = [dsent EXCEPT ![c] = @ + 1]
    /\ relay' = [relay EXCEPT ![c] = None]
    /\ tpc' = [tpc EXCEPT ![c] = "done"]
    /\ UNCHANGED <<npc, shared_chans, lock, chans, nextChan, pc, key, mode, role,
                   call, func_res, idx, ret, rounds, ran, alone>>

\* thread::scope returns once every thread spawned in it has ended
ScopeEnded(c) == tpc[c] \in {"done", "panic", "unwound"}

\* the end of the follower's scope, .unwrap(), and return shared_recv
GoChanFollowerReturn(c) ==
    /\ mode[c] = "go_chan" /\ pc[c] = "scope" /\ role[c] = "follower"
    /\ ScopeEnded(c)
    /\ pc' = [pc EXCEPT ![c] = IF tpc[c] = "panic" THEN "panic" ELSE "handle"]
    /\ tpc' = [tpc EXCEPT ![c] = "none"]
    /\ UNCHANGED <<npc, shared_chans, lock, chans, nextChan, key, mode, role, call,
                   func_res, idx, relay, dchan, ret, rounds, ran, alone, dsent>>

\* The leader path up to the end of the scope: Call::new(), or_insert,
\* drop(share), bounded(1), and the spawn of the thread that runs func.
GoChanClaim(c) ==
    /\ mode[c] = "go_chan" /\ pc[c] = "lookup"
    /\ ~ Present(shared_chans, key[c])
    /\ shared_chans' = Insert(shared_chans, key[c], NewCall(nextChan))
    /\ call' = [call EXCEPT ![c] = NewCall(nextChan)]
    /\ nextChan' = nextChan + 1
    /\ lock' = DropAfterClaim(c)
    /\ role' = [role EXCEPT ![c] = "leader"]
    /\ dchan' = [dchan EXCEPT ![c] = << >>]
    /\ tpc' = [tpc EXCEPT ![c] = "func"]
    /\ pc' = [pc EXCEPT ![c] = "scope"]
    /\ rounds' = [rounds EXCEPT ![NewCall(nextChan).chan] =
                     [NoRound EXCEPT !.key = key[c], !.leader = c]]
    /\ UNCHANGED <<npc, chans, key, mode, func_res, idx, relay, ret, ran, alone,
                   dsent>>

\* the spawned thread: let func_res = func();
TaskFunc(c, r) ==
    /\ tpc[c] = "func"
    /\ FuncCanReturn(c)
    /\ func_res' = [func_res EXCEPT ![c] = r]
    /\ ran' = [ran EXCEPT ![c] = @ + 1]
    /\ rounds' = [rounds EXCEPT ![call[c].chan].execs = @ + 1,
                                ![call[c].chan].res = r]
    /\ tpc' = [tpc EXCEPT ![c] = "relock"]
    /\ chans' = IF npc[c] = "none" THEN chans
                ELSE [chans EXCEPT ![call[c].chan] = Tail(@)]
    /\ npc' = [npc EXCEPT ![c] = "none"]
    /\ UNCHANGED <<shared_chans, lock, nextChan, pc, key, mode, role,
                   call, idx, relay, dchan, ret, alone, dsent>>

\* the spawned thread: func() panics and the thread ends by unwinding, the
\* record it was to remove stays where it is
TaskFuncPanics(c) ==
    /\ tpc[c] = "func"
    /\ npc[c] = "none"
    /\ ran' = [ran EXCEPT ![c] = @ + 1]
    /\ rounds' = [rounds EXCEPT ![call[c].chan].execs = @ + 1]
    /\ tpc' = [tpc EXCEPT ![c] = "unwound"]
    /\ UNCHANGED <<npc, shared_chans, lock, chans, nextChan, pc, key, mode,
                   role, call, func_res, idx, relay, dchan, ret, alone, dsent>>

\* the spawned thread: let mut shared = self.shared_chans.lock();
TaskRetireLock(c) ==
    /\ tpc[c] = "relock"
    /\ lock = NoOne
    /\ lock' = c
    /\ tpc' = [tpc EXCEPT ![c] = "remove"]
    /\ UNCHANGED <<npc, shared_chans, chans, nextChan, pc, key, mode, role, call,
                   func_res, idx, relay, dchan, ret, rounds, ran, alone, dsent>>

\* the spawned thread: let call = shared.remove(key).unwrap(); drop(shared)
TaskRetire(c) ==
    /\ tpc[c] = "remove"
    /\ lock' = NoOne
    /\ IF Present(shared_chans, key[c])
       THEN /\ call' = [call EXCEPT ![c] = shared_chans[key[c]]]
            /\ shared_chans' = Remove(shared_chans, key[c])
            /\ idx' = [idx EXCEPT ![c] = 0]
            /\ tpc' = [tpc EXCEPT ![c] =
                          AfterRetire(shared_chans[key[c]].dup, "send", "done")]
            /\ rounds' = [rounds EXCEPT
                             ![shared_chans[key[c]].chan].retired = TRUE,
                             ![shared_chans[key[c]].chan].dup =
                                 shared_chans[key[c]].dup]
       ELSE /\ tpc' = [tpc EXCEPT ![c] = "panic"]
            /\ UNCHANGED <<call, shared_chans, idx, rounds>>
    /\ UNCHANGED <<npc, chans, nextChan, pc, key, mode, role, func_res, relay,
                   dchan, ret, ran, alone, dsent>>

\* mutant: the leader's own message goes to the record's channel too
ToOwnChannelNever(i, dup) == FALSE

\* if i == call.dup { s.send(..) } else { call.chan.0.send(..) }
ToOwnChannel(i, dup) == i = dup

\* the spawned thread: one iteration of for i in 0..=call.dup
TaskSend(c) ==
    /\ tpc[c] = "send"
    /\ IF ToOwnChannel(idx[c], call[c].dup)
       THEN /\ Len(dchan[c]) < DeliveryCap
            /\ dchan' = [dchan EXCEPT ![c] =
                            Append(@, SharedValue(func_res[c], call[c].dup))]
            /\ dsent' = [dsent EXCEPT ![c] = @ + 1]
            /\ UNCHANGED <<chans, rounds>>
       ELSE /\ chans' = [chans EXCEPT ![call[c].chan] =
                            Append(@, SharedValue(func_res[c], call[c].dup))]
            /\ rounds' = [rounds EXCEPT ![call[c].chan].sent = @ + 1]
            /\ UNCHANGED <<dchan, dsent>>
    /\ idx' = [idx EXCEPT ![c] = @ + 1]
    /\ tpc' = [tpc EXCEPT ![c] =
                  AfterSend(idx[c], call[c].dup, "send", "done")]
    /\ UNCHANGED <<npc, shared_chans, lock, nextChan, pc, key, mode, role, call,
                   func_res, relay, ret, ran, alone>>

\* the end of the leader's scope, .unwrap(), and return r; a panic of the
\* spawned thread makes the scope's result an Err, on which unwrap panics
GoChanLeaderReturn(c) ==
    /\ mode[c] = "go_chan" /\ pc[c] = "scope" /\ role[c] = "leader"
    /\ ScopeEnded(c)
    /\ pc' = [pc EXCEPT ![c] = IF tpc[c] = "done" THEN "handle" ELSE tpc[c]]
    /\ tpc' = [tpc EXCEPT ![c] = "none"]
    /\ UNCHANGED <<npc, shared_chans, lock, chans, nextChan, key, mode, role, call,
                   func_res, idx, relay, dchan, ret, rounds, ran, alone, dsent>>

\* the caller's ch.recv() on the handle go_chan returned
HandleRecv(c) ==
    /\ mode[c] = "go_chan" /\ pc[c] = "handle"
    /\ dchan[c] # << >>
    /\ ret' = [ret EXCEPT ![c] = Head(dchan[c])]
    /\ dchan' = [dchan EXCEPT ![c] = Tail(@)]
    /\ pc' = [pc EXCEPT ![c] = "done"]
    /\ UNCHANGED <<npc, shared_chans, lock, chans, nextChan, tpc, key, mode, role,
                   call, func_res, idx, relay, rounds, ran, alone, dsent>>

\* ------------------------------------------ calls made by the func itself

\* The func of a leader calls self.go(key, ..) with the key of its own call.
NestedGoCall(c) ==
    /\ Executing(c) /\ npc[c] = "none"
    /\ npc' = [npc EXCEPT ![c] = "go_lock"]
    /\ alone' = [alone EXCEPT ![c] = FALSE]
    /\ UNCHANGED <<shared_chans, lock, chans, nextChan, pc, tpc, key, mode,
                   role, call, func_res, idx, relay, dchan, ret, rounds, ran,
                   dsent>>

\* The func of a leader calls self.go_chan(key, ..) with the key of its own call.
NestedGoChanCall(c) ==
    /\ Executing(c) /\ npc[c] = "none"
    /\ npc' = [npc EXCEPT ![c] = "chan_lock"]
    /\ alone' = [alone EXCEPT ![c] = FALSE]
    /\ UNCHANGED <<shared_chans, lock, chans, nextChan, pc, tpc, key, mode,
                   role, call, func_res, idx, relay, dchan, ret, rounds, ran,
                   dsent>>

\* let mut share = self.shared_chans.lock() of the call the func makes
NestedLock(c, from, to) ==
    /\ npc[c] = from
    /\ lock = NoOne
    /\ lock' = c
    /\ npc' = [npc EXCEPT ![c] = to]
    /\ UNCHANGED <<shared_chans, chans, nextChan, pc, tpc, key, mode, role,
                   call, func_res, idx, relay, dchan, ret, rounds, ran, alone,
                   dsent>>

NestedGoLock(c) == NestedLock(c, "go_lock", "go_lookup")

NestedGoChanLock(c) == NestedLock(c, "chan_lock", "chan_lookup")

\* The lookup of the call the func makes. It finds the record of the round
\* the func runs for: dup += 1, clone, drop(share), and the call goes on to
\* receive from that round's channel (blocked names where it waits: in recv
\* for go, at the end of the scope of its relaying thread for go_chan).
\* Were the key absent the call would claim it ("leader").
NestedLookup(c, at, blocked) ==
    /\ npc[c] = at
    /\ IF Present(shared_chans, key[c])
       THEN /\ shared_chans' = Bump(shared_chans, key[c])
            /\ lock' = DropAfterJoin(c)
            /\ npc' = [npc EXCEPT ![c] = blocked]
            /\ rounds' = [rounds EXCEPT
                             ![shared_chans[key[c]].chan].joined = @ + 1]
       ELSE /\ lock' = DropAfterClaim(c)
            /\ npc' = [npc EXCEPT ![c] = "leader"]
            /\ UNCHANGED <<shared_chans, rounds>>
    /\ UNCHANGED <<chans, nextChan, pc, tpc, key, mode, role, call, func_res,
                   idx, relay, dchan, ret, ran, alone, dsent>>

NestedGoJoin(c) == NestedLookup(c, "go_lookup", "f_recv")

NestedGoChanJoin(c) == NestedLookup(c, "chan_lookup", "scope")

\* ---------------------------------------------------------- specification

\* the steps of a call whose func makes no call of its own
CallStep(c) ==
        \/ \E k \in Keys : GoCall(c, k)
        \/ GoLock(c)
        \/ GoJoin(c)
        \/ GoFollowerRecv(c)
        \/ GoClaim(c)
        \/ \E r \in WorkResults(c) : GoFunc(c, r)
        \/ GoRetireLock(c)
        \/ GoRetire(c)
        \/ GoSend(c)
        \/ GoLeaderRecv(c)
        \/ \E k \in Keys : GoChanCall(c, k)
        \/ GoChanLock(c)
        \/ GoChanJoin(c)
        \/ TaskRelayRecv(c)
        \/ TaskRelaySend(c)
        \/ GoChanFollowerReturn(c)
        \/ GoChanClaim(c)
        \/ \E r \in WorkResults(c) : TaskFunc(c, r)
        \/ TaskRetireLock(c)
        \/ TaskRetire(c)
        \/ TaskSend(c)
        \/ GoChanLeaderReturn(c)
        \/ HandleRecv(c)

\* the steps of a call the func itself makes on the Group
NestedStep(c) ==
        \/ NestedGoCall(c)
        \/ NestedGoLock(c)
        \/ NestedGoJoin(c)
        \/ NestedGoChanCall(c)
        \/ NestedGoChanLock(c)
        \/ NestedGoChanJoin(c)

\* the func of a leader panics instead of returning
PanicStep(c) ==
        \/ GoFuncPanics(c)
        \/ TaskFuncPanics(c)

Next == \E c \in Callers : CallStep(c) \/ NestedStep(c) \/ PanicStep(c)

Spec == Init /\ [][Next]_vars

\* Every func returns, without calling into the Group and without panicking.
NextReturning == \E c \in Callers : CallStep(c)

\* Threads that can run do run: each caller's enabled step is eventually
\* taken (the OS scheduler; parking_lot's mutex hands the lock over).
FairSpec ==
    /\ Init
    /\ [][NextReturning]_vars
    /\ \A c \in Callers : WF_vars(CallStep(c) /\ pc[c] # "idle")

\* ------------------------------------------------------- claim vocabulary

Classified(c) == role[c] # "none"

Returned(c) == pc[c] = "done"

RoundOf(c) == call[c].chan

\* msg is the outcome of a work result res: the same value on success, the
\* error's text on failure
Carries(msg, res) ==
    \/ res.tag = "Ok" /\ msg.tag = "Ok" /\ msg.val = res.val
    \/ res.tag = "Err" /\ msg.tag = "Err" /\ msg.text = res.err.text

\* ----------------------------------------------------------------- C1

\* C1: at most one caller executes the work for a key at any time, and while
\* it executes, the record it installed for the key is still in the registry,
\* so the next execution for the key starts only after that record is removed.
C1_OneExecutionPerKey ==
    \A c \in Callers :
        Executing(c) =>
            /\ Present(shared_chans, key[c])
            /\ shared_chans[key[c]].chan = RoundOf(c)
            /\ \A d \in Callers \ {c} : Executing(d) => key[d] # key[c]

\* a second execution for a key is running after the first round was retired
C1_Witness ==
    \E c, d \in Callers :
        /\ c # d /\ key[c] = key[d]
        /\ Executing(c)
        /\ Classified(d) /\ rounds[RoundOf(d)].retired
        /\ rounds[RoundOf(d)].execs = 1

\* ----------------------------------------------------------------- C2

\* C2: a follower never runs its own work function, what it receives is the
\* outcome of the work run by the leader of the round it joined, and the
\* work of a round runs once however many followers joined.
C2_FollowerGetsLeadersOutcome ==
    /\ \A c \in Callers :
           role[c] = "follower" =>
               /\ ran[c] = 0
               /\ rounds[RoundOf(c)].leader # c
               /\ ret[c] # None =>
                      /\ rounds[RoundOf(c)].execs = 1
                      /\ Carries(ret[c], rounds[RoundOf(c)].res)
    /\ \A r \in ChanIds :
           /\ rounds[r].execs <= 1
           /\ rounds[r].retired => rounds[r].execs = 1

\* a follower has returned with the outcome of the round it joined
C2_Witness ==
    \E c \in Callers :
        /\ role[c] = "follower" /\ Returned(c) /\ ret[c] # None
        /\ rounds[RoundOf(c)].joined >= 1

\* ----------------------------------------------------------------- C3

\* C3 as stated: any two go calls for one key whose lifetimes overlap are
\* served by one execution of the work, that is, belong to one round.
C3_OverlapMeansOneRound ==
    \A c, d \in Callers :
        (/\ c # d /\ mode[c] = "go" /\ mode[d] = "go" /\ key[c] = key[d]
         /\ InCall(c) /\ InCall(d) /\ Classified(c) /\ Classified(d))
            => RoundOf(c) = RoundOf(d)

\* C3 amended: go calls for one key of which all but one found the record the
\* remaining one installed (they joined before it was retired) are served by
\* one execution, and all return the same outcome, with shared = true on
\* success.
C3_SameRoundOneExecution ==
    \A c, d \in Callers :
        (/\ c # d /\ mode[c] = "go" /\ mode[d] = "go"
         /\ Classified(c) /\ Classified(d) /\ RoundOf(c) = RoundOf(d))
            => /\ key[c] = key[d]
               /\ ran[c] + ran[d] <= 1
               /\ rounds[RoundOf(c)].execs <= 1
               /\ Returned(c) => /\ rounds[RoundOf(c)].execs = 1
                                 /\ Carries(ret[c], rounds[RoundOf(c)].res)
                                 /\ ret[c].tag = "Ok" => ret[c].shared
               /\ (Returned(c) /\ Returned(d)) => ret[c] = ret[d]

\* leader and follower of one round have both returned a shared success
C3_Witness ==
    \E c, d \in Callers :
        /\ c # d /\ mode[c] = "go" /\ mode[d] = "go"
        /\ RoundOf(c) = RoundOf(d) /\ Returned(c) /\ Returned(d)
        /\ ret[c].tag = "Ok" /\ ret[d].tag = "Ok"

\* ----------------------------------------------------------------- C4

\* C4: a call (go, or go_chan and one receive on its handle) during whose
\* whole lifetime no other call for its key is made runs the work once and
\* yields (v, false), v being the value the work returned.
C4_SoloCallNotShared ==
    \A c \in Callers :
        (Returned(c) /\ alone[c]) =>
            /\ ran[c] = 1
            /\ rounds[RoundOf(c)].execs = 1
            /\ func_res[c].tag = "Ok" =>
                   ret[c] = [tag |-> "Ok", val |-> func_res[c].val,
                             shared |-> FALSE]

\* a solo go call and a solo go_chan call have both yielded a success
C4_Witness ==
    \E c, d \in Callers :
        /\ mode[c] = "go" /\ mode[d] = "go_chan"
        /\ Returned(c) /\ Returned(d) /\ alone[c] /\ alone[d]
        /\ ret[c].tag = "Ok" /\ ret[d].tag = "Ok"

\* ----------------------------------------------------------------- C5

\* C5: in a round whose work succeeded, the shared flag every recipient gets
\* is true exactly if a follower joined the round before it was retired, so
\* the leader and the followers of a round get the same flag.
C5_SharedIffFollowerJoined ==
    \A c \in Callers :
        (ret[c] # None /\ ret[c].tag = "Ok") =>
            /\ ret[c].shared = (rounds[RoundOf(c)].joined > 0)
            /\ rounds[RoundOf(c)].dup = rounds[RoundOf(c)].joined
            /\ \A d \in Callers :
                   (RoundOf(d) = RoundOf(c) /\ ret[d] # None) =>
                       ret[d].tag = "Ok" /\ ret[d].shared = ret[c].shared

\* the leader and a follower of one round both hold shared = true
C5_Witness ==
    \E c, d \in Callers :
        /\ role[c] = "leader" /\ role[d] = "follower"
        /\ RoundOf(c) = RoundOf(d)
        /\ ret[c] # None /\ ret[d] # None
        /\ ret[c].tag = "Ok" /\ ret[c].shared /\ ret[d].shared

\* ----------------------------------------------------------------- C6

\* the messages a caller holds or can still take: its return value, what its
\* relaying thread carries, and what lies in its delivery channel
Held(c) ==
    {m \in {ret[c], relay[c]} : m # None}
        \cup {dchan[c][n] : n \in 1..Len(dchan[c])}

\* C6: if the work of a round returned Ok(v), every recipient of the round
\* gets a success with payload v; no message of another round or key reaches
\* it, and every message in a round's channel is that round's.
C6_PayloadIsRoundsValue ==
    /\ \A c \in Callers : \A m \in Held(c) :
           /\ rounds[RoundOf(c)].key = key[c]
           /\ rounds[RoundOf(c)].res.tag = "Ok" =>
                  m.tag = "Ok" /\ m.val = rounds[RoundOf(c)].res.val
    /\ \A r \in ChanIds : \A n \in 1..Len(chans[r]) :
           rounds[r].res.tag = "Ok" =>
               chans[r][n].tag = "Ok" /\ chans[r][n].val = rounds[r].res.val

\* two rounds with different values have each delivered their own value
C6_Witness ==
    \E c, d \in Callers :
        /\ Returned(c) /\ Returned(d) /\ RoundOf(c) # RoundOf(d)
        /\ ret[c].tag = "Ok" /\ ret[d].tag = "Ok"
        /\ ret[c].val # ret[d].val

\* ----------------------------------------------------------------- C7

\* C7: if the work of a round returned an error, every recipient of the round
\* gets a failure carrying the error's text and none gets a success; the
\* record is retired all the same and the work is not run again.
C7_ErrorReachesEveryone ==
    \A c \in Callers : \A m \in Held(c) :
        rounds[RoundOf(c)].res.tag = "Err" =>
            /\ m = [tag |-> "Err", text |-> rounds[RoundOf(c)].res.err.text]
            /\ rounds[RoundOf(c)].retired
            /\ rounds[RoundOf(c)].execs = 1
            /\ ~ (/\ Present(shared_chans, key[c])
                  /\ shared_chans[key[c]].chan = RoundOf(c))

\* the leader and a follower of a failed round both hold the failure
C7_Witness ==
    \E c, d \in Callers :
        /\ role[c] = "leader" /\ role[d] = "follower"
        /\ RoundOf(c) = RoundOf(d)
        /\ Returned(c) /\ Returned(d)
        /\ ret[c].tag = "Err" /\ ret[d].tag = "Err"

\* ----------------------------------------------------------------- C8

\* C8: nothing is cached across rounds: a call for a key that no other call
\* for the key overlaps, also one made after an earlier call for the key has
\* returned with a success or a failure (returned, not ended by a panic of
\* its func), becomes a leader and runs its own work, so two calls that do not
\* overlap run the work twice.
C8_NoCachingAcrossRounds ==
    \A c \in Callers :
        (alone[c] /\ \A d \in Callers \ {c} :
                         key[d] = key[c] => pc[d] # "unwound") =>
            /\ role[c] \in {"none", "leader"}
            /\ Returned(c) =>
                   /\ ran[c] = 1
                   /\ rounds[RoundOf(c)].leader = c
                   /\ \A d \in Callers \ {c} :
                          (Returned(d) /\ alone[d] /\ key[d] = key[c]) =>
                              /\ RoundOf(d) # RoundOf(c)
                              /\ rounds[RoundOf(c)].execs
                                     + rounds[RoundOf(d)].execs = 2

\* two calls for one key that did not overlap have both returned, the earlier
\* one with a failure
C8_Witness ==
    \E c, d \in Callers :
        /\ c # d /\ key[c] = key[d]
        /\ Returned(c) /\ Returned(d) /\ alone[c] /\ alone[d]
        /\ RoundOf(d) < RoundOf(c)
        /\ ret[d].tag = "Err" /\ ret[c].tag = "Ok"

\* ----------------------------------------------------------------- C9

\* C9: go_chan returns its handle without waiting for the thread it spawned:
\* a call that has spawned the thread is never held back at the end of its
\* scope, whatever the thread has or has not done yet.
C9_ReturnsWithoutWaiting ==
    \A c \in Callers :
        (mode[c] = "go_chan" /\ pc[c] = "scope") =>
            ENABLED (GoChanLeaderReturn(c) \/ GoChanFollowerReturn(c))

\* ----------------------------------------------------------------- C10

\* C10: the handle of a go_chan call, leader or follower, never holds more
\* than one message, one message in all is sent on it, and that message is
\* the outcome of the round the call belongs to.
C10_OneMessagePerHandle ==
    \A c \in Callers :
        mode[c] = "go_chan" =>
            /\ Len(dchan[c]) <= 1
            /\ dsent[c] <= 1
            /\ pc[c] \in {"handle", "done"} => dsent[c] = 1
            /\ pc[c] = "handle" => Len(dchan[c]) = 1
            /\ Returned(c) => dchan[c] = << >>
            /\ \A n \in 1..Len(dchan[c]) :
                   Carries(dchan[c][n], rounds[RoundOf(c)].res)
            /\ Returned(c) => Carries(ret[c], rounds[RoundOf(c)].res)

\* a go_chan leader and a go_chan follower have both yielded their message
C10_Witness ==
    \E c, d \in Callers :
        /\ mode[c] = "go_chan" /\ mode[d] = "go_chan"
        /\ role[c] = "leader" /\ role[d] = "follower"
        /\ RoundOf(c) = RoundOf(d)
        /\ Returned(c) /\ Returned(d)
        /\ dsent[c] = 1 /\ dsent[d] = 1

\* ----------------------------------------------------------------- C11

\* the thread of caller e is inside a critical section of the registry
InCriticalSection(e) ==
    /\ lock = e
    /\ \/ pc[e] \in {"lookup", "remove"}
       \/ tpc[e] = "remove"
       \/ npc[e] \in {"go_lookup", "chan_lookup"}

\* C11: calls for different keys do not block one another: while the work for
\* one key runs, a call for another key that leads its round (or has not yet
\* looked its key up) can always take its next step, unless some thread is
\* just then inside a lookup or removal; the running work never holds it up.
C11_OtherKeyNotBlocked ==
    \A c, d \in Callers :
        (/\ Executing(c) /\ InCall(d) /\ key[d] # key[c]
         /\ role[d] # "follower" /\ npc[d] = "none"
         /\ \A e \in Callers \ {d} : ~ InCriticalSection(e))
            => ENABLED CallStep(d)

\* the work for one key is still running, and a call for another key that
\* claimed its key later has run its work, retired its record and returned
C11_Witness ==
    \E c, d \in Callers :
        /\ Executing(c) /\ npc[c] = "none" /\ key[d] # key[c]
        /\ role[d] = "leader" /\ Returned(d)
        /\ RoundOf(d) > RoundOf(c)
        /\ rounds[RoundOf(d)].retired /\ rounds[RoundOf(d)].execs = 1

\* ----------------------------------------------------------------- C12

\* C12: under fair scheduling, with funcs that return, every call made is
\* completed: a go call returns, and the handle of a go_chan call is returned
\* holding its one outcome; no leader and no follower waits forever.
C12_EveryCallCompletes ==
    \A c \in Callers :
        (pc[c] # "idle") ~>
            (IF mode[c] = "go"
             THEN Returned(c)
             ELSE pc[c] \in {"handle", "done"} /\ dsent[c] = 1)

\* every caller has its outcome, one of them as a follower
C12_Witness ==
    /\ \A c \in Callers : Returned(c) /\ ret[c] # None
    /\ \E c \in Callers : role[c] = "follower"

\* ----------------------------------------------------------------- C13

\* the callers of the round whose channel is r: its leader and the followers
\* that cloned its record
Members(r) == {c \in Callers : Classified(c) /\ RoundOf(c) = r}

\* the caller has taken a message from the channel of its round's record (a
\* go_chan leader never does, its message comes on its delivery channel)
Took(c) ==
    IF mode[c] = "go"
    THEN ret[c] # None
    ELSE role[c] = "follower" /\ (relay[c] # None \/ dsent[c] = 1)

\* the leader of a retired round is past its send loop
SendsFinished(c) ==
    IF mode[c] = "go"
    THEN pc[c] \in {"l_recv", "done"}
    ELSE pc[c] \in {"handle", "done"} \/ (pc[c] = "scope" /\ tpc[c] = "done")

\* C13: a round's leader sends dup + 1 messages, dup being the number of
\* followers that joined; every message sent on the record's channel is
\* either still queued or was taken by one member of the round, each member
\* taking at most one; once every member has returned each holds one outcome
\* and the record's channel is empty; and no send finds its channel full.
C13_OneMessagePerRecipient ==
    /\ \A r \in ChanIds :
           /\ rounds[r].sent =
                  Len(chans[r]) + Cardinality({c \in Members(r) : Took(c)})
           /\ rounds[r].retired =>
                  /\ rounds[r].dup = rounds[r].joined
                  /\ Cardinality(Members(r)) = rounds[r].dup + 1
                  /\ rounds[r].sent + dsent[rounds[r].leader] <= rounds[r].dup + 1
                  /\ SendsFinished(rounds[r].leader) =>
                         rounds[r].sent + dsent[rounds[r].leader]
                             = rounds[r].dup + 1
                  /\ (\A c \in Members(r) : Returned(c)) =>
                         /\ chans[r] = << >>
                         /\ \A c \in Members(r) : ret[c] # None
    /\ \A c \in Callers :
           /\ dsent[c] <= 1
           /\ mode[c] = "go_chan" =>
                  dsent[c] = Len(dchan[c]) + (IF ret[c] # None THEN 1 ELSE 0)
           /\ tpc[c] = "t_send" => Len(dchan[c]) < DeliveryCap
           /\ (tpc[c] = "send" /\ ToOwnChannel(idx[c], call[c].dup)) =>
                  Len(dchan[c]) < DeliveryCap

\* a round that a follower joined is over: leader and follower have each
\* returned with a message and nothing is left in the record's channel
C13_Witness ==
    \E r \in ChanIds :
        /\ rounds[r].retired /\ rounds[r].dup >= 1
        /\ \A c \in Members(r) : Returned(c) /\ ret[c] # None
        /\ chans[r] = << >>

\* ----------------------------------------------------------------- C14

\* the leaders that claimed key k and have not retired its record
Claimants(k) ==
    {c \in Callers : /\ role[c] = "leader" /\ key[c] = k
                     /\ ~ rounds[RoundOf(c)].retired}

\* no call is in progress on the Group: each caller has made none, or its
\* call has returned (a go_chan call returns when it hands out the handle)
\* or has ended by unwinding
Quiescent == \A c \in Callers : ~ InCall(c) \/ pc[c] = "handle"

\* C14: a key is in the registry if and only if some leader has claimed it
\* and has not yet retired it, no key has two such leaders, the record is that
\* leader's, and the registry is empty whenever no call is in progress.
C14_PresentIffClaimed ==
    /\ \A k \in Keys :
           /\ Present(shared_chans, k) <=> Claimants(k) # {}
           /\ Cardinality(Claimants(k)) <= 1
           /\ \A c \in Claimants(k) : shared_chans[k].chan = RoundOf(c)
    /\ Quiescent => shared_chans = << >>

\* ----------------------------------------------------------------- C15

\* the record of the round whose channel is r is in the registry
Registered(r) ==
    \E k \in Keys : Present(shared_chans, k) /\ shared_chans[k].chan = r

\* an outcome of round r exists outside its leader's locals: a message was
\* sent for it, is queued, or is in the hands of one of its members
Broadcasting(r) ==
    \/ rounds[r].sent > 0
    \/ chans[r] # << >>
    \/ \E c \in Members(r) :
           \/ Took(c) \/ ret[c] # None
           \/ dsent[c] > 0 \/ dchan[c] # << >>

\* C15: a round's record leaves the registry before the round's first message
\* is sent and only after the leader's work has returned: whenever a message
\* of the round was sent, is queued, or was received or returned by a member,
\* the round is retired, its work has run and returned, and its record is no
\* longer in the registry.
C15_RetireBeforeBroadcast ==
    \A r \in ChanIds :
        /\ Broadcasting(r) => rounds[r].retired
        /\ rounds[r].retired =>
               /\ ~ Registered(r)
               /\ rounds[r].execs = 1
               /\ rounds[r].res # None
        /\ \A c \in Members(r) :
               (pc[c] \in {"send", "l_recv"} \/ tpc[c] \in {"send", "t_send"})
                   => rounds[r].retired

\* a follower has returned with its message before the leader of its round
\* took its own, the key being absent from the registry
C15_Witness ==
    \E c, d \in Callers :
        /\ role[c] = "follower" /\ Returned(c) /\ ret[c] # None
        /\ role[d] = "leader" /\ RoundOf(d) = RoundOf(c)
        /\ pc[d] = "l_recv"
        /\ ~ Present(shared_chans, key[c])

\* ----------------------------------------------------------------- C16

\* a thread of the caller is blocked on a channel: receiving from the
\* record's channel or from its handle, or in a send
OnAChannel(c) ==
    \/ pc[c] \in {"f_recv", "l_recv", "send", "handle"}
    \/ tpc[c] \in {"t_recv", "t_send", "send"}
    \/ npc[c] \in {"f_recv", "scope"}

\* C16: the lock is held only in the critical sections (the lookup with its
\* insert or increment, and the removal): whoever holds it is in one of them,
\* with none of its threads on a channel, and while a caller's func runs the
\* lock is held for that caller only by a lookup of a call the func makes.
C16_LockOnlyInCriticalSections ==
    \A c \in Callers :
        lock = c =>
            /\ InCriticalSection(c)
            /\ ~ OnAChannel(c)
            /\ Executing(c) => npc[c] \in {"go_lookup", "chan_lookup"}

\* another caller is inside its lookup, holding the lock, while the leader
\* of the same key runs its func
C16_Witness ==
    \E c, d \in Callers :
        /\ c # d /\ key[c] = key[d]
        /\ Executing(c) /\ npc[c] = "none"
        /\ lock = d /\ pc[d] = "lookup"

\* ----------------------------------------------------------------- C17

\* the leader is past its remove(key)
PastRetire(c) ==
    \/ pc[c] \in {"send", "l_recv", "handle", "done"}
    \/ tpc[c] \in {"send", "done"}

\* the leader's func has panicked and its call ends, or has ended, unwinding
Unwinding(c) == pc[c] = "unwound" \/ tpc[c] = "unwound"

\* C17: no unwrap of the library fails. A leader that reaches remove(key)
\* finds the record of its own round there, not yet retired; before that the
\* round is unretired and registered, after it retired and unregistered, so
\* each round is retired once. No channel operation meets a disconnected
\* channel: a handle is received from only when its message is in it, and a
\* delivery send happens while the call that owns the receiver still waits.
C17_NoBrokenInvariant ==
    \A c \in Callers :
        /\ pc[c] # "panic" /\ tpc[c] # "panic"
        /\ (pc[c] = "remove" \/ tpc[c] = "remove") =>
               /\ Present(shared_chans, key[c])
               /\ shared_chans[key[c]].chan = RoundOf(c)
        /\ (role[c] = "leader" /\ ~ Unwinding(c)) =>
               /\ rounds[RoundOf(c)].leader = c
               /\ PastRetire(c) <=> rounds[RoundOf(c)].retired
               /\ PastRetire(c) <=> ~ Registered(RoundOf(c))
        /\ pc[c] = "handle" => dchan[c] # << >>
        /\ tpc[c] \in {"send", "t_send"} => pc[c] = "scope"

\* two leaders of different keys have both retired their records and
\* returned, one through go and one through the handle of go_chan
C17_Witness ==
    \E c, d \in Callers :
        /\ role[c] = "leader" /\ role[d] = "leader" /\ key[c] # key[d]
        /\ mode[c] = "go" /\ mode[d] = "go_chan"
        /\ Returned(c) /\ Returned(d)
        /\ rounds[RoundOf(c)].retired /\ rounds[RoundOf(d)].retired

\* ----------------------------------------------------------------- C18

\* round r of a key was retired and a caller then claimed the key again
LaterLeader(r, d) ==
    /\ role[d] = "leader" /\ RoundOf(d) > r
    /\ rounds[r].key = key[d] /\ rounds[r].leader # d

\* C18: a caller that finds a key's record removed is no part of the round
\* that record stood for. It leads a round of its own, on a channel that is
\* not the earlier round's, which was retired before; what it returns is the
\* outcome of its own func; and the messages still queued for the earlier
\* round, like those its members hold, are that round's outcome.
C18_LateArrivalLeadsNewRound ==
    /\ \A r \in ChanIds : \A d \in Callers :
           LaterLeader(r, d) =>
               /\ rounds[r].retired
               /\ d \notin {rounds[r].leader} \cup {c \in Callers :
                                role[c] = "follower" /\ RoundOf(c) = r}
               /\ rounds[RoundOf(d)].leader = d
               /\ ran[d] <= 1
               /\ Returned(d) =>
                      /\ ran[d] = 1
                      /\ Carries(ret[d], func_res[d])
                      /\ ret[d].tag = "Ok" => ret[d].val = ValueOf(d)
    /\ \A r \in ChanIds :
           /\ \A n \in 1..Len(chans[r]) : Carries(chans[r][n], rounds[r].res)
           /\ \A c \in Members(r) :
                  /\ ret[c] # None => Carries(ret[c], rounds[r].res)
                  /\ relay[c] # None => Carries(relay[c], rounds[r].res)

\* the leader of a retired round has not yet taken its message from the
\* round's channel, and a caller that came for the key meanwhile has led a
\* round of its own and returned
C18_Witness ==
    \E r \in ChanIds : \E d \in Callers :
        /\ LaterLeader(r, d) /\ Returned(d)
        /\ rounds[r].retired /\ chans[r] # << >>
        /\ pc[rounds[r].leader] = "l_recv"

\* ----------------------------------------------------------------- C19

\* the followers of the round whose channel is r, of either mode
Followers(r) == {c \in Members(r) : role[c] = "follower"}

\* C19: go and go_chan callers share rounds. Whatever the modes of a round's
\* leader and followers, its work runs once; a leader that has finished
\* sending has put dup + 1 messages on the record's channel if it is a go
\* call, and dup there plus one on its own delivery channel if it is a go_chan
\* call; a go leader that returned took one of them; and each follower that
\* returned got one outcome of the round, a go_chan follower through the one
\* message relayed to its handle.
C19_ModesCoalesce ==
    \A r \in ChanIds :
        rounds[r].retired =>
            /\ rounds[r].execs = 1
            /\ Cardinality(Followers(r)) = rounds[r].dup
            /\ SendsFinished(rounds[r].leader) =>
                   IF mode[rounds[r].leader] = "go"
                   THEN /\ rounds[r].sent = rounds[r].dup + 1
                        /\ dsent[rounds[r].leader] = 0
                        /\ Returned(rounds[r].leader) => Took(rounds[r].leader)
                   ELSE /\ rounds[r].sent = rounds[r].dup
                        /\ dsent[rounds[r].leader] = 1
                        /\ ~ Took(rounds[r].leader)
            /\ \A c \in Followers(r) :
                   Returned(c) =>
                       /\ Took(c)
                       /\ Carries(ret[c], rounds[r].res)
                       /\ dsent[c] = (IF mode[c] = "go_chan" THEN 1 ELSE 0)
            /\ (\A c \in Members(r) : Returned(c)) => chans[r] = << >>

\* leader and follower of one round, one through go and the other through
\* go_chan, have both returned
C19_Witness ==
    \E r \in ChanIds : \E c \in Followers(r) :
        /\ rounds[r].retired
        /\ mode[c] # mode[rounds[r].leader]
        /\ Returned(c) /\ Returned(rounds[r].leader)

\* ----------------------------------------------------------------- C20

\* the call the caller's func made has joined the round and waits for a
\* message of it
NestedJoined(c) == npc[c] \in {"f_recv", "scope"}

\* C20: a call for key K made by the func of K's leader finds the leader's
\* record, never claims the key, and once it has joined (dup counted) it
\* waits on the channel of a round whose leader is the func's own caller:
\* nothing was or can be sent, the func can neither return nor panic, no step
\* of the caller is possible, the record stays in the registry, and every
\* caller that joined the round waits without a step it could take; no later
\* round of K exists.
C20_NestedCallDeadlocks ==
    \A c \in Callers :
        /\ npc[c] # "leader"
        /\ npc[c] # "none" =>
               /\ Executing(c)
               /\ Registered(RoundOf(c))
               /\ shared_chans[key[c]].chan = RoundOf(c)
        /\ NestedJoined(c) =>
               /\ shared_chans[key[c]].dup >= 1
               /\ ~ rounds[RoundOf(c)].retired
               /\ rounds[RoundOf(c)].sent = 0
               /\ chans[RoundOf(c)] = << >>
               /\ ~ ENABLED (CallStep(c) \/ NestedStep(c) \/ PanicStep(c))
               /\ \A d \in Followers(RoundOf(c)) :
                      /\ ~ Returned(d) /\ ret[d] = None /\ relay[d] = None
                      /\ ~ ENABLED CallStep(d)
               /\ \A d \in Callers \ {c} :
                      (role[d] = "leader" /\ key[d] = key[c]) =>
                          RoundOf(d) < RoundOf(c)

\* the func of a leader waits in a call of its own for the key, and a later
\* caller for the key has joined the round and waits too
C20_Witness ==
    \E c \in Callers :
        /\ NestedJoined(c)
        /\ \E d \in Followers(RoundOf(c)) :
               pc[d] = "f_recv" \/ (pc[d] = "scope" /\ tpc[d] = "t_recv")

====
